---- MODULE Spec2Model ----
(***************************************************************************)
(* A model of src/main.py: the AliExpress link pipeline (AliExpressAPI)    *)
(* and the per-message handler (TelegramBot.handle_message).               *)
(*                                                                         *)
(* Strings are TLA+ strings; Python's str operations (the `in` test,       *)
(* rstrip, split, re.search) are computed character by character.          *)
(***************************************************************************)
EXTENDS Integers, Sequences, FiniteSets, TLC

(***************************************************************************)
(* Python values.  None is a value of its own, distinct from every str.    *)
(***************************************************************************)
None == [t |-> "None", v |-> ""]
Str(s) == [t |-> "str", v |-> s]
\* A JSON number, as response.json() may hold one where a string is expected.
PyInt(d) == [t |-> "int", v |-> d]
\* Python truthiness: None, "" and 0 are falsy.
Truthy(x) == (x.t = "str" /\ x.v # "") \/ (x.t = "int" /\ x.v # "0")

(***************************************************************************)
(* str primitives                                                          *)
(***************************************************************************)
Char(s, i) == SubSeq(s, i, i)
\* s[i-1:] starts with lit
StartsAt(s, i, lit) ==
    /\ i >= 1
    /\ i + Len(lit) - 1 <= Len(s)
    /\ SubSeq(s, i, i + Len(lit) - 1) = lit
\* Python: sub in s
Contains(s, sub) == \E i \in 1..(Len(s) - Len(sub) + 1) : StartsAt(s, i, sub)
\* Python: s.find(sub) + 1  (0 when absent)
RECURSIVE FindFrom(_, _, _)
FindFrom(s, sub, i) ==
    IF i + Len(sub) - 1 > Len(s) THEN 0
    ELSE IF StartsAt(s, i, sub) THEN i
    ELSE FindFrom(s, sub, i + 1)
Find(s, sub) == FindFrom(s, sub, 1)

(***************************************************************************)
(* The fragment of Python's re that the source's patterns use: a pattern   *)
(* is a sequence of atoms, each a literal, an optional literal ( (?:x)? ,  *)
(* x? ) or a repeated character class, greedy or lazy.  Matching is        *)
(* re.search's: the leftmost start, and there the first success in         *)
(* backtracking order.                                                     *)
(***************************************************************************)
Digits == {"0", "1", "2", "3", "4", "5", "6", "7", "8", "9"}
Whitespace == {" ", "\t", "\n", "\r", "\f"}

InClass(c, cls) ==
    CASE cls = "\\d"     -> c \in Digits
      [] cls = "[^\\s]"  -> c \notin Whitespace
      [] cls = "[^/\\s]" -> c \notin (Whitespace \cup {"/"})
      [] cls = "[^/]"    -> c # "/"
      [] cls = "[=:]"    -> c \in {"=", ":"}
      [] cls = "."       -> c # "\n"

Unbounded == 0 - 1
Lit(s) == [k |-> "lit", s |-> s, c |-> "", min |-> 1, max |-> 1, lazy |-> FALSE]
Opt(s) == [k |-> "opt", s |-> s, c |-> "", min |-> 0, max |-> 1, lazy |-> FALSE]
Rep(cls, lo, hi, lazy) ==
    [k |-> "rep", s |-> "", c |-> cls, min |-> lo, max |-> hi, lazy |-> lazy]

\* The number of consecutive characters of class cls from position p, at most cap.
RECURSIVE RunLen(_, _, _, _)
RunLen(s, p, cls, cap) ==
    IF cap = 0 \/ p > Len(s) THEN 0
    ELSE IF ~InClass(Char(s, p), cls) THEN 0
    ELSE 1 + RunLen(s, p + 1, cls, IF cap < 0 THEN cap ELSE cap - 1)

\* MatchAt(re, k, s, p): atoms k.. of re matched from position p of s.  The
\* result is the start position of each of these atoms followed by the end of
\* the match (exclusive), or << >> when there is no match.
RECURSIVE MatchAt(_, _, _, _), TryRep(_, _, _, _, _, _)
TryRep(re, k, s, p, n, last) ==
    LET r == MatchAt(re, k + 1, s, p + n)
    IN  IF r # << >> THEN <<p>> \o r
        ELSE IF n = last THEN << >>
        ELSE TryRep(re, k, s, p, IF re[k].lazy THEN n + 1 ELSE n - 1, last)

MatchAt(re, k, s, p) ==
    IF k > Len(re) THEN <<p>>
    ELSE LET a == re[k]
         IN CASE a.k = "lit" ->
                   IF StartsAt(s, p, a.s)
                   THEN LET r == MatchAt(re, k + 1, s, p + Len(a.s))
                        IN  IF r = << >> THEN << >> ELSE <<p>> \o r
                   ELSE << >>
              [] a.k = "opt" ->
                   LET with == IF StartsAt(s, p, a.s)
                               THEN MatchAt(re, k + 1, s, p + Len(a.s))
                               ELSE << >>
                       without == MatchAt(re, k + 1, s, p)
                   IN  IF with # << >> THEN <<p>> \o with
                       ELSE IF without # << >> THEN <<p>> \o without
                       ELSE << >>
              [] a.k = "rep" ->
                   LET run == RunLen(s, p, a.c, a.max)
                   IN  IF run < a.min THEN << >>
                       ELSE TryRep(re, k, s, p,
                                   IF a.lazy THEN a.min ELSE run,
                                   IF a.lazy THEN run ELSE a.min)

\* re.search(re, s): << >> for no match.
RECURSIVE SearchFrom(_, _, _)
SearchFrom(re, s, i) ==
    IF i > Len(s) + 1 THEN << >>
    ELSE LET m == MatchAt(re, 1, s, i)
         IN  IF m # << >> THEN m ELSE SearchFrom(re, s, i + 1)
Search(re, s) == SearchFrom(re, s, 1)
\* match.group(0) and the group captured by atom g
Group0(re, s, m) == SubSeq(s, m[1], m[Len(re) + 1] - 1)
Group(s, m, g) == SubSeq(s, m[g], m[g + 1] - 1)

(***************************************************************************)
(* AliExpressAPI.extract_product_id: the pattern list                      *)
(***************************************************************************)
\* \d{10,} in the patterns
RegexMinDigits == 10
\* len(product_id) >= 10
MinProductIdLen == 10

\* Each entry: the pattern and the atom that is its group 1.
patterns == <<
    [re |-> <<Lit("/item/"), Rep("\\d", 1, Unbounded, FALSE), Lit(".html")>>, g |-> 2],
    [re |-> <<Lit("productIds="), Rep("\\d", 1, Unbounded, FALSE)>>, g |-> 2],
    [re |-> <<Lit("/"), Rep("\\d", 1, Unbounded, FALSE), Lit(".html")>>, g |-> 2],
    [re |-> <<Lit("product/"), Rep("\\d", 1, Unbounded, FALSE)>>, g |-> 2],
    [re |-> <<Lit("m.aliexpress.com/item/"), Rep("\\d", 1, Unbounded, FALSE)>>, g |-> 2],
    [re |-> <<Lit("m.aliexpress.com"), Rep(".", 0, Unbounded, TRUE),
              Rep("\\d", RegexMinDigits, Unbounded, FALSE)>>, g |-> 3],
    [re |-> <<Lit("aliexpress.com/item/"), Rep("\\d", 1, Unbounded, FALSE)>>, g |-> 2],
    [re |-> <<Lit("aliexpress.com"), Rep(".", 0, Unbounded, TRUE),
              Rep("\\d", RegexMinDigits, Unbounded, FALSE)>>, g |-> 3],
    [re |-> <<Lit("productId"), Rep("[=:]", 1, 1, FALSE),
              Rep("\\d", 1, Unbounded, FALSE)>>, g |-> 3],
    [re |-> <<Lit("itemId"), Rep("[=:]", 1, 1, FALSE),
              Rep("\\d", 1, Unbounded, FALSE)>>, g |-> 3],
    [re |-> <<Rep("\\d", RegexMinDigits, Unbounded, FALSE)>>, g |-> 1] >>

\* One pattern applied to a URL: match.group(1), or None when re.search finds
\* no match.
PatternCapture(i, url) ==
    LET m == Search(patterns[i].re, url)
    IN  IF m = << >> THEN None ELSE Str(Group(url, m, patterns[i].g))

\* The loop without `if len(product_id) >= 10`: the first match is returned
RECURSIVE MatchPatterns_no_filter(_, _)
MatchPatterns_no_filter(i, url) ==
    IF i > Len(patterns) THEN None
    ELSE IF PatternCapture(i, url) # None THEN PatternCapture(i, url)
    ELSE MatchPatterns_no_filter(i + 1, url)

\* The body of one `for pattern in patterns` loop, from pattern i on: the first
\* capture of at least 10 characters, or None when the loop falls through.
RECURSIVE MatchPatterns(_, _)
MatchPatterns(i, url) ==
    IF i > Len(patterns) THEN None
    ELSE LET c == PatternCapture(i, url)
         IN  IF c # None /\ Len(c.v) >= MinProductIdLen THEN c
             ELSE MatchPatterns(i + 1, url)

\* Python's str(value) inside an f-string
PyStr(x) == IF x.t = "None" THEN "None" ELSE x.v

(***************************************************************************)
(* AliExpressAPI.resolve_short_url.  head is what requests.head does for   *)
(* this call: [ok |-> FALSE] when it raises (timeout, connection error),   *)
(* [ok |-> TRUE, url |-> u] when it returns a response whose final URL is  *)
(* u.  A call's result is [ret, raised, heads]: the value returned, whether*)
(* an exception left the call, and the URLs HEAD requests went to.         *)
(***************************************************************************)
ShortLinkMarkers == {"s.click.aliexpress.com", "bit.ly", "tinyurl.com"}
\* resolve_short_url without its test of the URL: every URL is looked up
HasShortMarker_always(url) == TRUE
HasShortMarker(url) == \E m \in ShortLinkMarkers : Contains(url, m)

\* The try block.
ResolveTry(url, head) ==
    IF HasShortMarker(url)
    THEN [ret |-> IF head.ok THEN head.url ELSE url, raised |-> ~head.ok,
          heads |-> <<url>>]
    ELSE [ret |-> url, raised |-> FALSE, heads |-> << >>]

\* resolve_short_url without its except clause
resolve_short_url_no_except(url, head) == ResolveTry(url, head)

\* try / except Exception: return url
resolve_short_url(url, head) ==
    LET t == ResolveTry(url, head)
    IN  IF t.raised THEN [ret |-> url, raised |-> FALSE, heads |-> t.heads]
        ELSE t

(***************************************************************************)
(* AliExpressAPI.extract_product_id                                        *)
(***************************************************************************)
extract_product_id(url, head) ==
    LET r == resolve_short_url(url, head)
        first == MatchPatterns(1, r.ret)
    IN  IF r.raised
        THEN [ret |-> None, raised |-> TRUE, heads |-> r.heads, resolved |-> url]
        ELSE [ret |-> IF first # None THEN first ELSE MatchPatterns(1, url),
              raised |-> FALSE, heads |-> r.heads, resolved |-> r.ret]

(***************************************************************************)
(* AliExpressAPI.generate_signature.  params maps str keys to values.      *)
(* sorted(params.items()) orders the keys by code point.                   *)
(***************************************************************************)
\* The printable ASCII characters in code-point order: 32..95 and 97..126 (a
\* TLA+ string cannot hold the character of code 96, which no string of the
\* model contains).
AsciiLow == " !\"#$%&'()*+,-./0123456789:;<=>?@ABCDEFGHIJKLMNOPQRSTUVWXYZ[\\]^_"
AsciiHigh == "abcdefghijklmnopqrstuvwxyz{|}~"
OrdTable ==
    [c \in {Char(AsciiLow, i) : i \in 1..Len(AsciiLow)}
            \cup {Char(AsciiHigh, i) : i \in 1..Len(AsciiHigh)} |->
        IF Contains(AsciiHigh, c) THEN 96 + Find(AsciiHigh, c) ELSE 31 + Find(AsciiLow, c)]
\* ord(c)
Ord(c) == OrdTable[c]

RECURSIVE StrLess(_, _)
StrLess(a, b) ==
    IF b = "" THEN FALSE
    ELSE IF a = "" THEN TRUE
    ELSE IF Char(a, 1) = Char(b, 1)
         THEN StrLess(SubSeq(a, 2, Len(a)), SubSeq(b, 2, Len(b)))
         ELSE Ord(Char(a, 1)) < Ord(Char(b, 1))

RECURSIVE SortedKeys(_)
SortedKeys(S) ==
    IF S = {} THEN << >>
    ELSE LET m == CHOOSE k \in S : \A j \in S \ {k} : StrLess(k, j)
         IN  <<m>> \o SortedKeys(S \ {m})

RECURSIVE ConcatPairs(_, _, _)
ConcatPairs(params, keys, i) ==
    IF i > Len(keys) THEN ""
    ELSE keys[i] \o PyStr(params[keys[i]]) \o ConcatPairs(params, keys, i + 1)

\* query_string: the string that is signed
QueryString(params, api_name, app_secret) ==
    api_name \o ConcatPairs(params, SortedKeys(DOMAIN params), 1) \o app_secret

\* hmac.new(key, msg, sha256).hexdigest().upper(): the digest is not computed;
\* it is a value determined by the key and the message.
HmacSha256HexUpper(key, msg) == [alg |-> "HMAC-SHA256-HEX-UPPER", key |-> key, msg |-> msg]

generate_signature(params, api_name, app_secret) ==
    HmacSha256HexUpper(app_secret, QueryString(params, api_name, app_secret))

(***************************************************************************)
(* AliExpressAPI.get_affiliate_link: the request and the response parsing  *)
(***************************************************************************)
\* self.app_key, self.app_secret, self.tracking_id, self.api_url: the
\* configuration, fixed at construction.
app_key == "512345"
app_secret == "s3cr3t"
tracking_id == "default"
api_url == "https://api-sg.aliexpress.com/sync"
api_name == "aliexpress.affiliate.link.generate"

clean_url(product_id) == "https://www.aliexpress.com/item/" \o PyStr(product_id) \o ".html"

\* params before signing
RequestParams(product_id, promotion_link_type, timestamp) ==
    [app_key |-> Str(app_key),
     method |-> Str(api_name),
     sign_method |-> Str("sha256"),
     timestamp |-> Str(timestamp),
     v |-> Str("2.0"),
     format |-> Str("json"),
     promotion_link_type |-> Str(promotion_link_type),
     source_values |-> Str(clean_url(product_id)),
     tracking_id |-> Str(tracking_id)]

\* params["sign"] = signature
SignedParams(product_id, promotion_link_type, timestamp) ==
    LET params == RequestParams(product_id, promotion_link_type, timestamp)
    IN  [params |-> params, sign |-> generate_signature(params, api_name, app_secret)]

\* The descent through response.json().  A JSON object is a function on its
\* keys, promotion_links a sequence.
ParseLinkResponse(result) ==
    LET outer == "aliexpress_affiliate_link_generate_response"
        not_found == [ret |-> None, raised |-> FALSE, log |-> "API Error"]
    IN  IF outer \notin DOMAIN result THEN not_found
        ELSE IF "resp_result" \notin DOMAIN result[outer] THEN not_found
        ELSE LET resp_result == result[outer]["resp_result"]
             IN  IF "result" \notin DOMAIN resp_result THEN not_found
                 ELSE IF "promotion_links" \notin DOMAIN resp_result["result"] THEN not_found
                 ELSE LET promotion_links == resp_result["result"]["promotion_links"]
                      IN  IF Len(promotion_links) = 0 THEN not_found
                          \* promotion_links[0]["promotion_link"]: KeyError
                          ELSE IF "promotion_link" \notin DOMAIN promotion_links[1]
                          THEN [ret |-> None, raised |-> TRUE, log |-> ""]
                          ELSE [ret |-> promotion_links[1]["promotion_link"],
                                raised |-> FALSE, log |-> ""]

\* The try block: requests.post, raise_for_status, response.json(), the descent.
\* response is what the remote end does: [kind |-> "ConnectionError" | "Timeout"
\* | "HTTPError" | "JSONDecodeError"] or [kind |-> "json", body |-> ...].
PostTry(signed, response) ==
    LET sent == <<[url |-> api_url, data |-> signed]>>
    IN  IF response.kind # "json"
        THEN [ret |-> None, raised |-> TRUE, log |-> "", posts |-> sent]
        ELSE LET r == ParseLinkResponse(response.body)
             IN  [ret |-> r.ret, raised |-> r.raised, log |-> r.log, posts |-> sent]

\* get_affiliate_link posting once more when the first POST brought no link
AffiliateRequest_retry(signed, response) ==
    LET t == PostTry(signed, response)
    IN  IF t.raised \/ ~Truthy(t.ret)
        THEN [ret |-> None, raised |-> FALSE, log |-> "API request failed",
              posts |-> t.posts \o t.posts]
        ELSE t

\* try / except Exception: log, return None
AffiliateRequest(signed, response) ==
    LET t == PostTry(signed, response)
    IN  IF t.raised
        THEN [ret |-> None, raised |-> FALSE, log |-> "API request failed",
              posts |-> t.posts]
        ELSE t

(***************************************************************************)
(* AliExpressAPI.create_coin_discount_link                                 *)
(***************************************************************************)
Letters == {Char(AsciiHigh, i) : i \in 1..26} \cup {Char(AsciiLow, i) : i \in 34..59}
SchemeChars == Letters \cup Digits \cup {"+", "-", "."}
HexDigits == "0123456789abcdef"
HexUpper == "0123456789ABCDEF"
IsHex(c) == Contains(HexDigits, c) \/ Contains(HexUpper, c)
HexVal(c) == IF Contains(HexDigits, c) THEN Find(HexDigits, c) - 1 ELSE Find(HexUpper, c) - 1
\* chr(n) for a printable ASCII code; any other decoded byte is written "?"
\* (no string of the model holds such an escape).
Chr(n) ==
    IF n >= 32 /\ n <= 95 THEN Char(AsciiLow, n - 31)
    ELSE IF n >= 97 /\ n <= 126 THEN Char(AsciiHigh, n - 96)
    ELSE "?"

\* s.split(sep) for a one-character separator
RECURSIVE Split(_, _)
Split(s, sep) ==
    IF ~Contains(s, sep) THEN <<s>>
    ELSE LET i == Find(s, sep)
         IN  <<SubSeq(s, 1, i - 1)>> \o Split(SubSeq(s, i + 1, Len(s)), sep)

\* unquote(s.replace('+', ' '))
RECURSIVE UnquotePlus(_)
UnquotePlus(s) ==
    IF s = "" THEN ""
    ELSE IF Char(s, 1) = "+" THEN " " \o UnquotePlus(SubSeq(s, 2, Len(s)))
    ELSE IF Char(s, 1) = "%" /\ Len(s) >= 3 /\ IsHex(Char(s, 2)) /\ IsHex(Char(s, 3))
         THEN Chr(16 * HexVal(Char(s, 2)) + HexVal(Char(s, 3)))
                  \o UnquotePlus(SubSeq(s, 4, Len(s)))
    ELSE Char(s, 1) \o UnquotePlus(SubSeq(s, 2, Len(s)))

\* url.lstrip(" "), of urlsplit
RECURSIVE LStripSpace(_)
LStripSpace(s) ==
    IF s # "" /\ Char(s, 1) = " " THEN LStripSpace(SubSeq(s, 2, Len(s))) ELSE s

\* s.partition(sep)[0] and s.partition(sep)[2], for a one-character separator
Before(s, sep) == IF Contains(s, sep) THEN SubSeq(s, 1, Find(s, sep) - 1) ELSE s
After(s, sep) == IF Contains(s, sep) THEN SubSeq(s, Find(s, sep) + 1, Len(s)) ELSE ""

\* urlsplit: the scheme, when url[:i] is one, is cut off
StripSchemeAt(url, i) ==
    IF /\ i > 1
       /\ Char(url, 1) \in Letters
       /\ \A j \in 1..(i - 1) : Char(url, j) \in SchemeChars
    THEN SubSeq(url, i + 1, Len(url))
    ELSE url
StripScheme(url) == StripSchemeAt(url, Find(url, ":"))

\* _splitnetloc(url, 2): the netloc ends at the first of "/?#"
RECURSIVE NetlocEnd(_, _)
NetlocEnd(url, j) ==
    IF j > Len(url) THEN Len(url) + 1
    ELSE IF Char(url, j) \in {"/", "?", "#"} THEN j
    ELSE NetlocEnd(url, j + 1)
SplitNetlocAt(url, delim) ==
    [netloc |-> SubSeq(url, 3, delim - 1), url |-> SubSeq(url, delim, Len(url))]
SplitNetloc(url) ==
    IF StartsAt(url, 1, "//") THEN SplitNetlocAt(url, NetlocEnd(url, 3))
    ELSE [netloc |-> "", url |-> url]

\* _check_bracketed_host: a bracketed host that is no IP literal raises
\* ValueError (taken here as: anything but hex digits, ":" and ".").
BadBracketedHost(host) ==
    \/ host = ""
    \/ \E j \in 1..Len(host) : ~(IsHex(Char(host, j)) \/ Char(host, j) \in {":", "."})
\* urlsplit raises ValueError("Invalid IPv6 URL") for an unmatched bracket
BadNetloc(netloc) ==
    \/ Contains(netloc, "[") # Contains(netloc, "]")
    \/ /\ Contains(netloc, "[")
       /\ BadBracketedHost(Before(After(netloc, "["), "]"))

\* urlparse(url).query: [raised, query]
QueryOfSplit(split) ==
    IF BadNetloc(split.netloc) THEN [raised |-> TRUE, query |-> ""]
    ELSE [raised |-> FALSE, query |-> After(Before(split.url, "#"), "?")]
UrlQuery(link) == QueryOfSplit(SplitNetloc(StripScheme(LStripSpace(link))))

\* parse_qs(query).get(key, [''])[0]: the first non-blank value given to key.
FieldValue(f, eq, key) ==
    IF eq > 0 /\ eq < Len(f) /\ UnquotePlus(SubSeq(f, 1, eq - 1)) = key
    THEN Str(UnquotePlus(SubSeq(f, eq + 1, Len(f))))
    ELSE None
RECURSIVE QueryGet(_, _, _)
QueryGet(fields, i, key) ==
    IF i > Len(fields) THEN ""
    ELSE IF FieldValue(fields[i], Find(fields[i], "="), key) # None
    THEN FieldValue(fields[i], Find(fields[i], "="), key).v
    ELSE QueryGet(fields, i + 1, key)

QueryParam(query, key) == IF query = "" THEN "" ELSE QueryGet(Split(query, "&"), 1, key)

\* The f-string
CoinUrl(product_id, aff_fcid, aff_fsk, aff_trace_key, terminal_id) ==
    "https://m.aliexpress.com/p/coin-index/index.html"
        \o "?_immersiveMode=true"
        \o "&from=syicon"
        \o "&productIds=" \o PyStr(product_id)
        \o "&aff_fcid=" \o aff_fcid
        \o "&tt=CPS_NORMAL"
        \o "&aff_fsk=" \o aff_fsk
        \o "&aff_platform=portals-tool"
        \o "&sk=" \o aff_fsk
        \o "&aff_trace_key=" \o aff_trace_key
        \o "&terminal_id=" \o terminal_id

\* From urlparse on: parsed is urlparse's outcome.
CoinLinkFromParsed(parsed, product_id) ==
    IF parsed.raised THEN [ret |-> None, raised |-> TRUE]
    ELSE [ret |-> Str(CoinUrl(product_id,
                              QueryParam(parsed.query, "aff_fcid"),
                              QueryParam(parsed.query, "aff_fsk"),
                              QueryParam(parsed.query, "aff_trace_key"),
                              QueryParam(parsed.query, "terminal_id"))),
          raised |-> FALSE]

create_coin_discount_link(affiliate_link, product_id) ==
    IF ~Truthy(affiliate_link) \/ ~Truthy(product_id)
    THEN [ret |-> None, raised |-> FALSE]
    \* urlparse of a value that is no str raises
    ELSE IF affiliate_link.t # "str" THEN [ret |-> None, raised |-> TRUE]
    ELSE CoinLinkFromParsed(UrlQuery(affiliate_link.v), product_id)

(***************************************************************************)
(* TelegramBot.handle_message: link detection                              *)
(***************************************************************************)
aliexpress_patterns == <<
    <<Lit("http"), Opt("s"), Lit("://"), Opt("www."), Lit("aliexpress.com/item/"),
      Rep("\\d", 1, Unbounded, FALSE), Lit(".html"), Rep("[^\\s]", 0, Unbounded, FALSE)>>,
    <<Lit("http"), Opt("s"), Lit("://"), Opt("www."), Lit("aliexpress.com/item/"),
      Rep("[^/\\s]", 1, Unbounded, FALSE), Rep("[^\\s]", 0, Unbounded, FALSE)>>,
    <<Lit("http"), Opt("s"), Lit("://m.aliexpress.com/item/"),
      Rep("\\d", 1, Unbounded, FALSE), Lit(".html"), Rep("[^\\s]", 0, Unbounded, FALSE)>>,
    <<Lit("http"), Opt("s"), Lit("://m.aliexpress.com/"),
      Rep("[^\\s]", 0, Unbounded, FALSE)>>,
    <<Lit("http"), Opt("s"), Lit("://s.click.aliexpress.com/e/"),
      Rep("[^/\\s]", 1, Unbounded, FALSE)>>,
    <<Lit("http"), Opt("s"), Lit("://"), Opt("www."), Lit("aliexpress.com/"),
      Rep("[^\\s]", 0, Unbounded, FALSE)>>,
    <<Lit("http"), Opt("s"), Lit("://"), Rep("[^/]", 0, Unbounded, FALSE),
      Lit("aliexpress"), Rep("[^/]", 0, Unbounded, FALSE), Lit(".com/"),
      Rep("[^\\s]", 0, Unbounded, FALSE)>>,
    <<Lit("http"), Opt("s"), Lit("://m.aliexpress.com/p/coin-index/"),
      Rep("[^\\s]", 0, Unbounded, FALSE)>>,
    <<Lit("http"), Opt("s"), Lit("://"), Rep("[^\\s]", 0, Unbounded, FALSE),
      Lit("aliexpress"), Rep("[^\\s]", 0, Unbounded, FALSE)>> >>

\* s.rstrip(chars)
RECURSIVE RStrip(_, _)
RStrip(s, chars) ==
    IF s # "" /\ Contains(chars, Char(s, Len(s)))
    THEN RStrip(SubSeq(s, 1, Len(s) - 1), chars)
    ELSE s

\* The detection loop from pattern i on: found_url, or None.
RECURSIVE DetectUrl(_, _)
DetectUrl(i, text) ==
    IF i > Len(aliexpress_patterns) THEN None
    ELSE LET m == Search(aliexpress_patterns[i], text)
         IN  IF m # << >>
             THEN Str(RStrip(Group0(aliexpress_patterns[i], text, m), ".,;!?"))
             ELSE DetectUrl(i + 1, text)

(***************************************************************************)
(* The environment: inbound messages, what the redirect service and the    *)
(* remote endpoint answer, and whether the chat transport delivers.        *)
(***************************************************************************)
\* Messages handled one after the other in a behaviour.
MaxMessages == 2

Messages == {
    "hello, any deals today?",
    "check this out https://www.aliexpress.com/item/1005004633663909.html thanks",
    "https://www.aliexpress.com/item/12345.html!",
    "https://s.click.aliexpress.com/e/_onrOEQB",
    "look: https://s.click.aliexpress.com/e/1234567890123?",
    "https://m.aliexpress.com/p/coin-index/index.html?productIds=1005004633663909",
    "see https://m.aliexpress.com/item/1005001111111111.html." }

\* Where a short link may lead.
RedirectTargets == {
    "https://www.aliexpress.com/item/1005004633663909.html?spm=a2g0o",
    "https://www.aliexpress.com/item/1005001111111111.html",
    "https://www.aliexpress.com/" }

HeadFails == [ok |-> FALSE, url |-> ""]
\* requests.head(url, allow_redirects=True): it raises, it is redirected to a
\* target, or it is answered without a redirect (response.url is url).
HeadOutcomes(url) ==
    {HeadFails} \cup {[ok |-> TRUE, url |-> u] : u \in RedirectTargets \cup {url}}

\* int(time.time() * 1000)
Timestamps == {"1700000000000", "1700000000001"}

LinkGenerateResponse(resp_result) ==
    [kind |-> "json",
     body |-> [aliexpress_affiliate_link_generate_response |->
                  [resp_result |-> resp_result, request_id |-> "0ba2887315178178017221014"]]]
PromotionLinks(links) ==
    LinkGenerateResponse([resp_code |-> 200, resp_msg |-> "success",
                          result |-> [promotion_links |-> links]])
PromotionLink(link) ==
    PromotionLinks(<<[promotion_link |-> link, source_value |-> "src"]>>)

\* Answers that carry no link.
FailureResponses == <<
    [kind |-> "ConnectionError", body |-> << >>],
    [kind |-> "Timeout", body |-> << >>],
    [kind |-> "HTTPError", body |-> << >>],
    [kind |-> "JSONDecodeError", body |-> << >>],
    [kind |-> "json",
     body |-> [error_response |-> [code |-> "IncompleteSignature", msg |-> "bad sign"]]],
    [kind |-> "json",
     body |-> [aliexpress_affiliate_link_generate_response |-> [request_id |-> "0"]]],
    LinkGenerateResponse([resp_code |-> 405, resp_msg |-> "no permission"]),
    LinkGenerateResponse([resp_code |-> 200, result |-> [total_result_count |-> 0]]),
    PromotionLinks(<< >>),
    PromotionLinks(<<[source_value |-> "src", message |-> "invalid"]>>) >>

\* Answers that carry a value under promotion_link.
LinkResponses == <<
    PromotionLink(Str("https://s.click.aliexpress.com/e/_DmYz?aff_fcid=F1&aff_fsk=K1&aff_trace_key=T1&terminal_id=X1")),
    PromotionLink(Str("https://s.click.aliexpress.com/e/_DmYz?aff_fcid=F1&aff_trace_key=T1")),
    PromotionLink(Str("https://[s.click.aliexpress.com/e/_DmYz?aff_fcid=F1")),
    PromotionLink(Str("")),
    PromotionLink(None),
    PromotionLink(PyInt("5")) >>

Responses == FailureResponses \o LinkResponses

(***************************************************************************)
(* State                                                                   *)
(***************************************************************************)
VARIABLES
    pc,             \* where handle_message stands
    message_text,   \* update.message.text
    found_url,      \* handle_message's found_url
    product_id,     \* handle_message's product_id
    affiliate_link, \* handle_message's affiliate_link
    coin_link,      \* handle_message's coin_link
    aff,            \* get_affiliate_link's locals, and what its POST met
    heads,          \* the URLs HEAD requests were sent to, for this message
    posts,          \* the POST requests sent, for this message
    replies,        \* the reply_text / edit_text calls made, for this message
    escaped,        \* an exception left handle_message
    handled,        \* messages received so far
    call            \* the last direct call of a pipeline function, with its result

vars == <<pc, message_text, found_url, product_id, affiliate_link, coin_link,
          aff, heads, posts, replies, escaped, handled, call>>
handler_vars == <<pc, message_text, found_url, product_id, affiliate_link,
                  coin_link, aff, heads, posts, replies, escaped, handled>>

\* response: which of Responses the POST met (0: no POST answered); raised: an
\* exception left get_affiliate_link; returned: it returned; no_id: it returned
\* at `if not product_id: return None`.
NoAff == [resolved_url |-> None, product_id |-> None, response |-> 0,
          raised |-> FALSE, returned |-> FALSE, no_id |-> FALSE]
\* call: the function called, its arguments, and its result once it returned
NoCall == [fn |-> "", args |-> << >>, done |-> FALSE, result |-> << >>]

HandlerInit ==
    /\ pc = "idle"
    /\ message_text = ""
    /\ found_url = None
    /\ product_id = None
    /\ affiliate_link = None
    /\ coin_link = None
    /\ aff = NoAff
    /\ heads = << >>
    /\ posts = << >>
    /\ replies = << >>
    /\ escaped = FALSE
    /\ handled = 0

Init ==
    /\ HandlerInit
    /\ call = NoCall

\* One call of the chat transport: update.message.reply_text or
\* processing_msg.edit_text; ok is whether it returned (FALSE: it raised).
Reply(op, text, ok) == [op |-> op, text |-> text, ok |-> ok, link |-> "", id |-> ""]

\* HEAD outcomes to choose from for a resolve of url: none when no request is made.
HeadChoices(url) == IF HasShortMarker(url) THEN HeadOutcomes(url) ELSE {HeadFails}

(***************************************************************************)
(* handle_message, one action per stretch between two awaits or network    *)
(* calls.                                                                  *)
(***************************************************************************)
\* The host calls handle_message; the detection loop runs.
Receive ==
    /\ pc \in {"idle", "done"}
    /\ handled < MaxMessages
    /\ \E m \in Messages :
          /\ message_text' = m
          /\ found_url' = DetectUrl(1, m)
    /\ pc' = "detected"
    /\ product_id' = None
    /\ affiliate_link' = None
    /\ coin_link' = None
    /\ aff' = NoAff
    /\ heads' = << >>
    /\ posts' = << >>
    /\ replies' = << >>
    /\ escaped' = FALSE
    /\ handled' = handled + 1
    /\ UNCHANGED call

\* if not found_url: reply_text(no link found); return
ReplyNoLink ==
    /\ pc = "detected"
    /\ ~Truthy(found_url)
    /\ \E ok \in BOOLEAN :
          /\ replies' = Append(replies, Reply("reply_text", "no_link", ok))
          /\ escaped' = ~ok
    /\ pc' = "done"
    /\ UNCHANGED <<message_text, found_url, product_id, affiliate_link, coin_link,
                   aff, heads, posts, handled, call>>

\* if 'coin-index' in found_url: reply_text(already a coin link); return
ReplyAlreadyCoin ==
    /\ pc = "detected"
    /\ Truthy(found_url)
    /\ Contains(found_url.v, "coin-index")
    /\ \E ok \in BOOLEAN :
          /\ replies' = Append(replies, Reply("reply_text", "already_coin", ok))
          /\ escaped' = ~ok
    /\ pc' = "done"
    /\ UNCHANGED <<message_text, found_url, product_id, affiliate_link, coin_link,
                   aff, heads, posts, handled, call>>

\* processing_msg = await reply_text("Processing your link..."), before the try
ShowProcessing ==
    /\ pc = "detected"
    /\ Truthy(found_url)
    /\ ~Contains(found_url.v, "coin-index")
    /\ \E ok \in BOOLEAN :
          /\ replies' = Append(replies, Reply("reply_text", "processing", ok))
          /\ escaped' = ~ok
          /\ pc' = IF ok THEN "extract" ELSE "done"
    /\ UNCHANGED <<message_text, found_url, product_id, affiliate_link, coin_link,
                   aff, heads, posts, handled, call>>

\* product_id = self.api.extract_product_id(found_url)
ExtractProductId ==
    /\ pc = "extract"
    /\ \E h \in HeadChoices(found_url.v) :
          LET r == extract_product_id(found_url.v, h)
          IN  /\ product_id' = r.ret
              /\ heads' = heads \o r.heads
              /\ pc' = IF r.raised THEN "except"
                       ELSE IF ~Truthy(r.ret) THEN "reply_no_id"
                       ELSE "aff_resolve"
    /\ UNCHANGED <<message_text, found_url, affiliate_link, coin_link, aff, posts,
                   replies, escaped, handled, call>>

\* if not product_id: edit_text(could not extract product ID); return
ReplyNoProductId ==
    /\ pc = "reply_no_id"
    /\ \E ok \in BOOLEAN :
          /\ replies' = Append(replies, Reply("edit_text", "no_product_id", ok))
          /\ pc' = IF ok THEN "done" ELSE "except"
    /\ UNCHANGED <<message_text, found_url, product_id, affiliate_link, coin_link,
                   aff, heads, posts, escaped, handled, call>>

\* get_affiliate_link: resolved_url = self.resolve_short_url(product_url)
AffResolve ==
    /\ pc = "aff_resolve"
    /\ \E h \in HeadChoices(found_url.v) :
          LET r == resolve_short_url(found_url.v, h)
          IN  /\ aff' = [aff EXCEPT !.resolved_url = Str(r.ret), !.raised = r.raised]
              /\ heads' = heads \o r.heads
              /\ pc' = IF r.raised THEN "except" ELSE "aff_extract"
    /\ UNCHANGED <<message_text, found_url, product_id, affiliate_link, coin_link,
                   posts, replies, escaped, handled, call>>

\* get_affiliate_link: product_id = self.extract_product_id(resolved_url);
\* if not product_id: return None
AffExtract ==
    /\ pc = "aff_extract"
    /\ \E h \in HeadChoices(aff.resolved_url.v) :
          LET r == extract_product_id(aff.resolved_url.v, h)
          IN  /\ aff' = [aff EXCEPT !.product_id = r.ret, !.raised = r.raised,
                                    !.returned = ~r.raised /\ ~Truthy(r.ret),
                                    !.no_id = ~r.raised /\ ~Truthy(r.ret)]
              /\ heads' = heads \o r.heads
              /\ pc' = IF r.raised THEN "except"
                       ELSE IF ~Truthy(r.ret) THEN "aff_returned"
                       ELSE "aff_post"
    /\ affiliate_link' = None
    /\ UNCHANGED <<message_text, found_url, product_id, coin_link, posts, replies,
                   escaped, handled, call>>

\* get_affiliate_link: the signed request, the POST and the parsing of its answer
AffPost ==
    /\ pc = "aff_post"
    /\ \E ts \in Timestamps, i \in DOMAIN Responses :
          LET r == AffiliateRequest(SignedParams(aff.product_id, "2", ts), Responses[i])
          IN  /\ aff' = [aff EXCEPT !.response = i, !.raised = r.raised,
                                    !.returned = ~r.raised]
              /\ posts' = posts \o r.posts
              /\ affiliate_link' = r.ret
              /\ pc' = IF r.raised THEN "except" ELSE "aff_returned"
    /\ UNCHANGED <<message_text, found_url, product_id, coin_link, heads, replies,
                   escaped, handled, call>>

\* if not affiliate_link: edit_text(could not generate affiliate link); return
ReplyNoAffiliateLink ==
    /\ pc = "aff_returned"
    /\ ~Truthy(affiliate_link)
    /\ \E ok \in BOOLEAN :
          /\ replies' = Append(replies, Reply("edit_text", "no_affiliate_link", ok))
          /\ pc' = IF ok THEN "done" ELSE "except"
    /\ UNCHANGED <<message_text, found_url, product_id, affiliate_link, coin_link,
                   aff, heads, posts, escaped, handled, call>>

\* coin_link = self.api.create_coin_discount_link(affiliate_link, product_id)
CreateCoinLink ==
    /\ pc = "aff_returned"
    /\ Truthy(affiliate_link)
    /\ LET r == create_coin_discount_link(affiliate_link, product_id)
       IN  /\ coin_link' = r.ret
           /\ pc' = IF r.raised THEN "except" ELSE "reply_result"
    /\ UNCHANGED <<message_text, found_url, product_id, affiliate_link, aff, heads,
                   posts, replies, escaped, handled, call>>

\* if not coin_link: edit_text(could not create coin discount link); return
\* else: the link type, and edit_text(success_message)
ReplyResult ==
    /\ pc = "reply_result"
    /\ \E ok \in BOOLEAN :
          /\ replies' = Append(replies,
                IF ~Truthy(coin_link) THEN Reply("edit_text", "no_coin_link", ok)
                ELSE [op |-> "edit_text", text |-> "success", ok |-> ok,
                      link |-> PyStr(coin_link), id |-> PyStr(product_id)])
          /\ pc' = IF ok THEN "done" ELSE "except"
    /\ UNCHANGED <<message_text, found_url, product_id, affiliate_link, coin_link,
                   aff, heads, posts, escaped, handled, call>>

\* except Exception: log, edit_text(an error occurred)
ExceptHandler ==
    /\ pc = "except"
    /\ \E ok \in BOOLEAN :
          /\ replies' = Append(replies, Reply("edit_text", "error", ok))
          /\ escaped' = ~ok
    /\ pc' = "done"
    /\ UNCHANGED <<message_text, found_url, product_id, affiliate_link, coin_link,
                   aff, heads, posts, handled, call>>

Next ==
    \/ Receive
    \/ ReplyNoLink
    \/ ReplyAlreadyCoin
    \/ ShowProcessing
    \/ ExtractProductId
    \/ ReplyNoProductId
    \/ AffResolve
    \/ AffExtract
    \/ AffPost
    \/ ReplyNoAffiliateLink
    \/ CreateCoinLink
    \/ ReplyResult
    \/ ExceptHandler

Spec == Init /\ [][Next]_vars

(***************************************************************************)
(* Direct calls of the pipeline's functions, on inputs of their own.       *)
(***************************************************************************)
\* URLs are made of at most MaxSegs of these pieces.
MaxSegs == 2
UrlTokens == {
    "https://m.aliexpress.com",
    "https://s.click.aliexpress.com/e/_o",
    "/item/12345.html",
    "/item/1005004633663909",
    ".html",
    "?productIds=1005001111111111",
    "&itemId:1005002222222222",
    "/product/12345",
    "/i/1005003333",
    "&productId=123456789" }

RECURSIVE UrlsUpTo(_)
UrlsUpTo(n) ==
    IF n = 0 THEN {""}
    ELSE UrlsUpTo(n - 1) \cup {u \o t : u \in UrlsUpTo(n - 1), t \in UrlTokens}
TestUrls == UrlsUpTo(MaxSegs)

InitExtract ==
    /\ HandlerInit
    /\ \E url \in TestUrls :
          \E head \in HeadChoices(url) :
             call = [fn |-> "extract_product_id",
                     args |-> [url |-> url, head |-> head],
                     done |-> FALSE, result |-> << >>]

\* extract_product_id(url), the redirect service answering as head
CallExtract ==
    /\ call.fn = "extract_product_id"
    /\ ~call.done
    /\ call' = [call EXCEPT !.done = TRUE,
                            !.result = extract_product_id(call.args.url, call.args.head)]
    /\ UNCHANGED handler_vars

NextExtract == CallExtract
SpecExtract == InitExtract /\ [][NextExtract]_vars

\* Parameter mappings: every mapping of some of these keys to these values.
ParamKeys == {"a", "ab", "b"}
ParamValues == {Str("1"), Str("12"), Str(""), None}
ParamMappings == UNION {[S -> ParamValues] : S \in SUBSET ParamKeys}
ApiNames == {api_name, "a"}

InitSign ==
    /\ HandlerInit
    /\ \E params \in ParamMappings, name \in ApiNames :
          call = [fn |-> "generate_signature",
                  args |-> [params |-> params, api_name |-> name],
                  done |-> FALSE, result |-> << >>]

\* generate_signature(params, api_name): query_string is the string it signs
CallSign ==
    /\ call.fn = "generate_signature"
    /\ ~call.done
    /\ call' = [call EXCEPT
                   !.done = TRUE,
                   !.result =
                      [query_string |->
                          QueryString(call.args.params, call.args.api_name, app_secret),
                       signature |->
                          generate_signature(call.args.params, call.args.api_name,
                                             app_secret)]]
    /\ UNCHANGED handler_vars

NextSign == CallSign
SpecSign == InitSign /\ [][NextSign]_vars

\* Affiliate links: a base and some of the four trace parameters.
TraceParams == <<"aff_fcid=F1", "aff_fsk=K1", "aff_trace_key=T1", "terminal_id=X1">>
RECURSIVE JoinQuery(_, _, _)
JoinQuery(S, i, sep) ==
    IF i > Len(TraceParams) THEN ""
    ELSE IF i \in S THEN sep \o TraceParams[i] \o JoinQuery(S, i + 1, "&")
    ELSE JoinQuery(S, i + 1, sep)
LinkBases == {
    "https://s.click.aliexpress.com/e/_DmYz",
    "https://[s.click.aliexpress.com/e/_DmYz",
    "s.click.aliexpress.com/e/_DmYz#x" }
TestLinks ==
    {None, Str(""), PyInt("5")}
        \cup {Str(b \o JoinQuery(S, 1, "?")) :
                 b \in LinkBases, S \in SUBSET (DOMAIN TraceParams)}
TestProductIds == {None, Str(""), Str("1005004633663909"), Str("12345")}

InitCoin ==
    /\ HandlerInit
    /\ \E link \in TestLinks, id \in TestProductIds :
          call = [fn |-> "create_coin_discount_link",
                  args |-> [affiliate_link |-> link, product_id |-> id],
                  done |-> FALSE, result |-> << >>]

\* create_coin_discount_link(affiliate_link, product_id)
CallCoin ==
    /\ call.fn = "create_coin_discount_link"
    /\ ~call.done
    /\ call' = [call EXCEPT
                   !.done = TRUE,
                   !.result = create_coin_discount_link(call.args.affiliate_link,
                                                        call.args.product_id)]
    /\ UNCHANGED handler_vars

NextCoin == CallCoin
SpecCoin == InitCoin /\ [][NextCoin]_vars

(***************************************************************************)
(* Properties                                                              *)
(***************************************************************************)
HasDigitRun(s, n) ==
    \E i \in 1..(Len(s) - n + 1) : \A j \in i..(i + n - 1) : Char(s, j) \in Digits
AllDigits(s) == \A j \in 1..Len(s) : Char(s, j) \in Digits
ContainsMarker(u) ==
    \/ Contains(u, "s.click.aliexpress.com")
    \/ Contains(u, "bit.ly")
    \/ Contains(u, "tinyurl.com")
\* A reply other than the interim notice reached the user.
FinalReplySent ==
    \E i \in DOMAIN replies : replies[i].ok /\ replies[i].text # "processing"
Delivered(text) == \E i \in DOMAIN replies : replies[i].ok /\ replies[i].text = text
AllDelivered == \A i \in DOMAIN replies : replies[i].ok

\* C1: when handle_message has ended, whatever the transport calls did, the
\* user has been sent a final reply (not only the interim notice) and no
\* exception has left handle_message.
C1_FinalReplyAndNoEscape == pc = "done" => (FinalReplySent /\ ~escaped)

C3_OnePostNoRaise ==
    /\ Len(posts) <= 1
    /\ aff.response \in DOMAIN FailureResponses =>
          /\ Len(posts) = 1
          /\ ~aff.raised
          /\ aff.returned
          /\ affiliate_link = None
C3_Witness ==
    /\ aff.response \in DOMAIN FailureResponses
    /\ aff.returned
    /\ Len(posts) = 1
    /\ pc = "aff_returned"

\* No plausible product ID was found, in handle_message's own extraction or
\* in get_affiliate_link's.
ExtractionFailed ==
    \/ /\ Delivered("processing")
       /\ pc \notin {"detected", "extract"}
       /\ ~Truthy(product_id)
    \/ aff.no_id
\* C4: when handling ends because no plausible product ID was found, at
\* whichever stage, the user is told 'Could not extract product ID', not
\* 'Could not generate affiliate link', and no POST has been sent.
C4_ExtractionFailureReply ==
    (pc = "done" /\ AllDelivered /\ ExtractionFailed) =>
        /\ Delivered("no_product_id")
        /\ ~Delivered("no_affiliate_link")
        /\ posts = << >>

ExtractCalled == call.fn = "extract_product_id" /\ call.done
\* C5: when the HEAD request of a short link fails, extract_product_id raises
\* nothing, the URL it works on is its input, and it returns an ID of 10 or
\* more digits found in that URL exactly when the URL holds a run of 10 or
\* more digits.
C5_FailOpen ==
    (ExtractCalled /\ ContainsMarker(call.args.url) /\ ~call.args.head.ok) =>
        /\ ~call.result.raised
        /\ call.result.resolved = call.args.url
        /\ HasDigitRun(call.args.url, 10) =>
              /\ call.result.ret # None
              /\ AllDigits(call.result.ret.v)
              /\ Len(call.result.ret.v) >= 10
              /\ Contains(call.args.url, call.result.ret.v)
        /\ ~HasDigitRun(call.args.url, 10) => call.result.ret = None
C5_Witness ==
    /\ ExtractCalled
    /\ ContainsMarker(call.args.url)
    /\ ~call.args.head.ok
    /\ HasDigitRun(call.args.url, 10)
    /\ call.result.ret # None

\* Rule i's match on u passes the plausibility filter.
Accepted(i, u) == PatternCapture(i, u) # None /\ Len(PatternCapture(i, u).v) >= 10
AcceptedRules(u) == {i \in DOMAIN patterns : Accepted(i, u)}
LeastOf(S) == CHOOSE i \in S : \A j \in S : i <= j
\* The capture of the first rule, in list order, accepted on u; None if none is.
FirstAccepted(u) ==
    IF AcceptedRules(u) = {} THEN None ELSE PatternCapture(LeastOf(AcceptedRules(u)), u)
\* The URL the rules are applied to first.
ResolvedOf(url, head) == IF ContainsMarker(url) /\ head.ok THEN head.url ELSE url

\* The statement of C6 as given, read on the URL passed in: the result is the
\* capture of the first rule accepted on that URL, and a URL whose digit runs
\* are all shorter than 10 yields None.
C6_Original ==
    ExtractCalled =>
        /\ ~call.result.raised
        /\ call.result.ret = FirstAccepted(call.args.url)
        /\ ~HasDigitRun(call.args.url, 10) => call.result.ret = None

\* C6 (amended): extract_product_id returns the capture of the first rule, in
\* list order, accepted on the resolved URL, or failing that on the original
\* URL; every ID returned is a string of digits of length at least 10; and it
\* returns None, raising nothing, when the digit runs of the resolved and of
\* the original URL are all shorter than 10.
C6_FirstAcceptedRule ==
    ExtractCalled =>
        /\ ~call.result.raised
        /\ call.result.ret =
              IF FirstAccepted(ResolvedOf(call.args.url, call.args.head)) # None
              THEN FirstAccepted(ResolvedOf(call.args.url, call.args.head))
              ELSE FirstAccepted(call.args.url)
        /\ call.result.ret # None =>
              AllDigits(call.result.ret.v) /\ Len(call.result.ret.v) >= 10
        /\ (/\ ~HasDigitRun(ResolvedOf(call.args.url, call.args.head), 10)
            /\ ~HasDigitRun(call.args.url, 10)) => call.result.ret = None
\* An earlier rule matched and was rejected as too short; a later one was
\* accepted and returned.
C6_Witness ==
    /\ ExtractCalled
    /\ call.result.ret # None
    /\ PatternCapture(1, call.args.url) # None
    /\ ~Accepted(1, call.args.url)
    /\ call.result.ret = PatternCapture(2, call.args.url)

\* C7: a HEAD request goes only to a URL that holds a short-link marker; for a
\* detected URL without a marker no HEAD request is made at any point of the
\* handling; when no URL is detected, no HEAD and no POST request is made.
C7_HeadOnlyForShortLinks ==
    /\ \A i \in DOMAIN heads : ContainsMarker(heads[i])
    /\ (Truthy(found_url) /\ ~ContainsMarker(found_url.v)) => heads = << >>
    /\ ~Truthy(found_url) => (heads = << >> /\ posts = << >>)
\* A URL without a marker reaches synthesis, no HEAD request made.
C7_Witness ==
    /\ Truthy(found_url)
    /\ ~ContainsMarker(found_url.v)
    /\ pc = "reply_result"
    /\ Truthy(coin_link)
    /\ heads = << >>

SignCalled == call.fn = "generate_signature" /\ call.done
Without(params, k) == [j \in (DOMAIN params) \ {k} |-> params[j]]
\* C8: a parameter whose value is None contributes nothing to the signed
\* string: the string is the one signed for the mapping without that key.
C8_NoneContributesNothing ==
    SignCalled =>
        \A k \in DOMAIN call.args.params :
            call.args.params[k] = None =>
                call.result.query_string =
                    QueryString(Without(call.args.params, k), call.args.api_name,
                                app_secret)

CoinCalled == call.fn = "create_coin_discount_link" /\ call.done
\* C9: create_coin_discount_link raises nothing; with an argument missing it
\* returns None; what it returns otherwise is None or a discount URL.
C9_NeverRaises ==
    CoinCalled =>
        /\ ~call.result.raised
        /\ (~Truthy(call.args.affiliate_link) \/ ~Truthy(call.args.product_id)) =>
              call.result.ret = None
        /\ call.result.ret # None =>
              StartsAt(call.result.ret.v, 1,
                       "https://m.aliexpress.com/p/coin-index/index.html?")

\* C10: in a successful reply, the product ID of the coin link is the ID of
\* the canonical URL sent as source_values in the POST.
C10_SameProductId ==
    \A i \in DOMAIN replies :
        (replies[i].text = "success" /\ replies[i].ok) =>
            /\ Len(posts) = 1
            /\ Contains(replies[i].link, "&productIds=" \o replies[i].id \o "&")
            /\ posts[1].data.params.source_values =
                  Str("https://www.aliexpress.com/item/" \o replies[i].id \o ".html")
====
